---- MODULE Spec2Model ----
(***************************************************************************)
(* pvi: the statistics-preparation pipeline of src/potts/pvi/src/pvi.c.    *)
(*                                                                         *)
(*   main:  MSARead -> MSAReweightSequences -> MSACountMarginals           *)
(*          -> MSAEstimateSampleSize (only for 0 <= theta <= 1)            *)
(*          -> InferPairModel                                              *)
(*                                                                         *)
(* Real numbers (numeric_t) are exact rationals [n, d] in lowest terms     *)
(* with d > 0; the IEEE special values a division by zero produces are     *)
(* kept as d = 0: [n |-> 1, d |-> 0] is +Inf and [n |-> 0, d |-> 0] is NaN *)
(* (0 * Inf).  Characters are one-character strings, C strings are         *)
(* sequences of characters, C arrays are sequences read through the        *)
(* 0-based accessors of the source (seq, fi, fij, ungapij).                *)
(***************************************************************************)
EXTENDS Integers, Sequences, FiniteSets, TLC

\* ------------------------------------------------------------------ bounds

\* Most cells (records times columns) of a file of plain characters.
MaxPlainCells == 6

\* Most cells of a file that may also hold a second symbol, a lowercase
\* and an out-of-alphabet character.
MaxMixedCells == 3

\* Most cells of a file read in focus mode.
MaxFocusCells == 4

\* Most records, and most characters of a sequence line, of a file that
\* may be malformed.
MaxFormatRecords == 3

MaxFormatLen == 2

\* Most cells (records times columns) of a file with a region in a name.
MaxRegionCells == 3

\* Most cells of an alignment a batch trial is drawn on.
MaxTrialCells == 4

\* Most sequences, so most iterations, of the parallel neighbor loop.
MaxOpenMPRows == 3

\* ------------------------------------------------------------------- reals

RECURSIVE GCD(_, _)
GCD(a, b) == IF b = 0 THEN a ELSE GCD(b, a % b)

Abs(x) == IF x < 0 THEN -x ELSE x

Sign(x) == IF x < 0 THEN -1 ELSE IF x = 0 THEN 0 ELSE 1

\* The value n/d in lowest terms; d = 0 gives the special values.
R(n, d) ==
    IF d = 0 THEN [n |-> Sign(n), d |-> 0]
    ELSE LET g == GCD(Abs(n), Abs(d))
         IN  [n |-> Sign(d) * (n \div g), d |-> Abs(d) \div g]

Zero == R(0, 1)

One == R(1, 1)

IsNaN(x) == x.d = 0 /\ x.n = 0

IsFinite(x) == x.d > 0

RAdd(x, y) ==
    IF x.d = 0 /\ y.d = 0
    THEN (IF x.n = y.n THEN x ELSE R(0, 0))
    ELSE R(x.n * y.d + y.n * x.d, x.d * y.d)

RSub(x, y) == RAdd(x, R(-y.n, y.d))

RMul(x, y) == R(x.n * y.n, x.d * y.d)

\* x / y as IEEE computes it: 1/0 is Inf, 0/0 is NaN.
RDiv(x, y) == R(x.n * y.d, x.d * y.n)

\* Comparisons are false when either side is NaN, as in C.
RLe(x, y) ==
    /\ ~IsNaN(x) /\ ~IsNaN(y)
    /\ IF x.d = 0 /\ y.d = 0 THEN x.n <= y.n
       ELSE IF x.d = 0 THEN x.n < 0
       ELSE IF y.d = 0 THEN y.n > 0
       ELSE x.n * y.d <= y.n * x.d

RLt(x, y) == RLe(x, y) /\ x # y

RECURSIVE RSumRange(_, _, _)
\* a[lo] + ... + a[hi].  Exact addition is associative, so the sum the code
\* accumulates from 0.0 in index order is computed by halves.
RSumRange(a, lo, hi) ==
    IF lo > hi THEN Zero
    ELSE IF lo = hi THEN a[lo]
    ELSE LET mid == (lo + hi) \div 2
         IN  RAdd(RSumRange(a, lo, mid), RSumRange(a, mid + 1, hi))

\* 0.0 + a[1] + ... + a[k]
RSumTo(a, k) == RSumRange(a, 1, k)

RSum(a) == RSumTo(a, Len(a))

\* -------------------------------------------------------------- characters

NUL == "0x00"

Lower == [c \in {"A", "C", "X", "Y"} |->
            CASE c = "A" -> "a" [] c = "C" -> "c" [] c = "X" -> "x" [] c = "Y" -> "y"]

\* toupper of <ctype.h>, on the characters the model draws.
toupper(c) ==
    IF \E u \in DOMAIN Lower : Lower[u] = c
    THEN CHOOSE u \in DOMAIN Lower : Lower[u] = c
    ELSE c

\* isdigit of <ctype.h>.
isdigit(c) == c \in {"0", "1", "2", "3", "4", "5", "6", "7", "8", "9"}

DigitValue(c) ==
    CASE c = "0" -> 0 [] c = "1" -> 1 [] c = "2" -> 2 [] c = "3" -> 3 [] c = "4" -> 4
      [] c = "5" -> 5 [] c = "6" -> 6 [] c = "7" -> 7 [] c = "8" -> 8 [] c = "9" -> 9

\* s[k] of a C string, 0-based; the terminator sits at k = strlen(s).
CharAt(s, k) == IF k >= 0 /\ k < Len(s) THEN s[k + 1] ELSE NUL

\* Reference amino acid indexing.
codesAA ==
    << "-", "A", "C", "D", "E", "F", "G", "H", "I", "K", "L",
       "M", "N", "P", "Q", "R", "S", "T", "V", "W", "Y" >>

\* ------------------------------------------------------------------- state

VARIABLES
    file,       \* the alignment file: records [name, seq], each a C string
    options,    \* options_t, as main leaves it after the command line
    ali,        \* alignment_t
    pc,         \* the call main makes next
    trial,      \* the locals of the estimator's batch trial under way
    threads     \* the iterations of the parallel neighbor-count loop

vars == << file, options, ali, pc, trial, threads >>

INFER_MAP_PLM == "INFER_MAP_PLM"

INFER_MAP_PLM_GAPREDUCE == "INFER_MAP_PLM_GAPREDUCE"

\* alphabet == codesAA compares pointers: -a replaces the pointer, whatever
\* the text it points to.
IsCodesAA(alphabet) == alphabet.ptr = "codesAA"

\* ------------------------------------------------------------ accessors

\* seq(s, i): row-major cell of the alignment matrix, 0-based.
seq(a, s, i) == a.sequences[i + a.nSites * s + 1]

\* fi(i, Ai): row-major cell of the site table, as a 0-based C index.
fiIx(a, i, Ai) == i * a.nCodes + Ai

\* Index of the pair i < j among the nSites * (nSites - 1) / 2 pairs.
pairIx(a, i, j) ==
    (a.nSites * (a.nSites - 1)) \div 2
        - ((a.nSites - i) * (a.nSites - i - 1)) \div 2 + j - i - 1

\* fij(i, j, Ai, Aj): cell of the pair table, as a 0-based C index.
fijIx(a, i, j, Ai, Aj) == (pairIx(a, i, j) * a.nCodes + Ai) * a.nCodes + Aj

\* ungapij(i, j): the entry of the pair of sites i and j.
ungapij(a, i, j) ==
    a.ungapij[pairIx(a, IF i < j THEN i ELSE j, IF i < j THEN j ELSE i) + 1]

\* ------------------------------------------------------------- MSAReadCode

RECURSIVE ScanAlphabet(_, _, _, _)
\* while ((i < nCodes - 1) && toupper(c) != alphabet[i]) i++;
ScanAlphabet(c, str, nCodes, i) ==
    IF i < nCodes - 1 /\ toupper(c) # CharAt(str, i)
    THEN ScanAlphabet(c, str, nCodes, i + 1)
    ELSE i

\* MSAReadCode without the shift of a lowercase match by -nCodes.
MSAReadCode_NoShift(c0, alphabet, nCodes) ==
    LET c  == IF IsCodesAA(alphabet) /\ c0 = "." THEN "-" ELSE c0
        i1 == ScanAlphabet(c, alphabet.str, nCodes, 0)
        i3 == IF i1 > 0 /\ toupper(c) # CharAt(alphabet.str, i1)
              THEN nCodes ELSE i1
    IN  i3

MSAReadCode(c0, alphabet, nCodes) ==
    LET c  == IF IsCodesAA(alphabet) /\ c0 = "." THEN "-" ELSE c0
        i1 == ScanAlphabet(c, alphabet.str, nCodes, 0)
        i2 == IF c # CharAt(alphabet.str, i1) /\ toupper(c) = CharAt(alphabet.str, i1)
              THEN i1 - nCodes ELSE i1
        i3 == IF i2 > 0 /\ toupper(c) # CharAt(alphabet.str, i2)
              THEN nCodes ELSE i2
    IN  i3

\* A table pointer that is NULL: no cells.
NULLTable == [n |-> 0, nz |-> [ix \in {} |-> [n |-> 0, d |-> 1]], nan |-> {}]

\* ali as MSARead allocates it, before the file is read.
EmptyAlignment(alphabet) ==
    [ nSeqs |-> 0, nSites |-> 0, nCodes |-> 0, alphabet |-> alphabet,
      names |-> << >>, sequences |-> << >>, target |-> -1, offsets |-> << >>,
      weights |-> << >>, nEff |-> Zero,
      fi |-> NULLTable, fij |-> NULLTable, gapi |-> << >>, ungapij |-> << >> ]

\* ----------------------------------------------------------------- MSARead

RECURSIVE LinesFrom(_, _)
\* The text of the records r .. Len(f) of the file, line by line: the name
\* line, with its '>' if the record has one, and the sequence line.
LinesFrom(f, r) ==
    IF r > Len(f) THEN << >>
    ELSE << (IF f[r].marker THEN << ">" >> ELSE << >>) \o f[r].name >>
         \o (IF f[r].seq = << >> THEN << >> ELSE << f[r].seq >>)
         \o LinesFrom(f, r + 1)

Lines(f) == LinesFrom(f, 1)

\* The next character of the file is '>'.
IsMarked(line) == Len(line) > 0 /\ line[1] = ">"

RECURSIVE MSAReadSeq(_, _, _)
\* Read sequence from the current line(s): lines are appended to seq until
\* the next one starts with '>' or the file ends.
MSAReadSeq(lines, pos, acc) ==
    IF pos <= Len(lines) /\ ~IsMarked(lines[pos])
    THEN MSAReadSeq(lines, pos + 1, acc \o lines[pos])
    ELSE [seq |-> acc, pos |-> pos]

RECURSIVE Records(_, _, _)
\* The name and sequence pairs read from line pos on, each from a line
\* that starts with '>'.
Records(lines, pos, recs) ==
    IF pos > Len(lines) THEN recs
    ELSE LET rs == MSAReadSeq(lines, pos + 1, << >>)
         IN  Records(lines, rs.pos,
                     Append(recs, [marker |-> TRUE, name |-> Tail(lines[pos]),
                                   seq |-> rs.seq]))

\* strlen(seq) at line 298 when the first line has no '>': seq was never
\* written, its length is whatever the stack holds.
Garbage(lines) ==
    IF IsMarked(lines[1]) THEN { 0 }
    ELSE 0..(CHOOSE m \in 0..64 : /\ \E k \in 1..Len(lines) : Len(lines[k]) = m
                                  /\ \A k \in 1..Len(lines) : Len(lines[k]) <= m)

\* The first pass through the file: "exit" where it calls exit(1), "ok"
\* where it sets the dimensions; g is the length found in an unwritten seq.
FirstPass(lines, g) ==
    LET marked == IsMarked(lines[1])
        first  == IF marked THEN MSAReadSeq(lines, 2, << >>)
                  ELSE [seq |-> << >>, pos |-> 2]
        nSites == IF marked THEN Len(first.seq) ELSE g
    IN  IF ~marked /\ (first.pos > Len(lines) \/ ~IsMarked(lines[first.pos]))
        THEN "exit"
        ELSE IF \E r \in DOMAIN Records(lines, first.pos, << >>) :
                    Len(Records(lines, first.pos, << >>)[r].seq) # nSites
        THEN "exit"
        ELSE "ok"

\* The records the second pass reads.  After a first line without '>' the
\* first row is read from a seq that holds '\0' and then what the first
\* pass left in the buffer: the last sequence it read.
ParsedRecords(lines, g) ==
    IF IsMarked(lines[1]) THEN Records(lines, 1, << >>)
    ELSE LET rest == Records(lines, 2, << >>)
             last == rest[Len(rest)].seq
         IN  << [marker |-> FALSE, name |-> Tail(lines[1]),
                 seq |-> [i \in 1..g |-> IF i = 1 THEN NUL ELSE last[i]]] >>
             \o rest

\* strncmp(target, name, strlen(target)) == 0
StartsWith(name, target) ==
    /\ Len(name) >= Len(target)
    /\ \A k \in 1..Len(target) : name[k] = target[k]

RECURSIVE FindTarget_LastMatch(_, _, _, _)
\* The focus search in which every matching name replaces the target.
FindTarget_LastMatch(names, prefix, s0, target) ==
    IF s0 >= Len(names) THEN target
    ELSE FindTarget_LastMatch(names, prefix, s0 + 1,
            IF StartsWith(names[s0 + 1], prefix) THEN s0 ELSE target)

RECURSIVE FindTarget(_, _, _, _)
\* The focus search over s = s0 .. nSeqs - 1, target being the index so far.
FindTarget(names, prefix, s0, target) ==
    IF s0 >= Len(names) THEN target
    ELSE FindTarget(names, prefix, s0 + 1,
            IF StartsWith(names[s0 + 1], prefix) /\ target < 0 THEN s0 ELSE target)

\* SeqValid with the upper test made inclusive: seq(s, i) <= nCodes.
SeqValid_SentinelPasses(a, s) ==
    \A i \in 0..(a.nSites - 1) : seq(a, s, i) >= -a.nCodes /\ seq(a, s, i) <= a.nCodes

\* seqValid[s] == nSites: no cell of row s is out of the alphabet.
SeqValid(a, s) ==
    \A i \in 0..(a.nSites - 1) : seq(a, s, i) >= -a.nCodes /\ seq(a, s, i) < a.nCodes

\* siteValid[i] == 1, with the focus at row a.target of the full matrix.
SiteValid(a, opts, i) ==
    IF a.target >= 0
    THEN /\ ~(IsCodesAA(a.alphabet) /\ seq(a, a.target, i) < 0)
         /\ ~((IsCodesAA(a.alphabet) \/ opts.estimatorMAP = INFER_MAP_PLM_GAPREDUCE)
               /\ seq(a, a.target, i) = 0)
    ELSE TRUE

RECURSIVE DigitRun(_, _, _)
\* while (regLeft + ix < strlen(name) && isdigit(name[regLeft + ix + 1])) ix++;
DigitRun(name, regLeft, ix) ==
    IF regLeft + ix < Len(name) /\ isdigit(CharAt(name, regLeft + ix + 1))
    THEN DigitRun(name, regLeft, ix + 1)
    ELSE ix

\* int is 32 bits wide.
INT_MAX == 2147483647

INT_MIN == -2147483647 - 1

\* a + b in int, wrapped around where the sum leaves the range.
AddInt(a, b) ==
    IF a >= 0 /\ b >= 0 /\ b > INT_MAX - a THEN (a + INT_MIN) + (b + INT_MIN)
    ELSE IF a < 0 /\ b < 0 /\ b < INT_MIN - a THEN (a - INT_MIN) + (b - INT_MIN)
    ELSE a + b

RECURSIVE MulInt(_, _)
\* a * k in int for a small k >= 0, wrapped around likewise.
MulInt(a, k) == IF k = 0 THEN 0 ELSE AddInt(a, MulInt(a, k - 1))

RECURSIVE RegionValue(_, _, _, _, _)
\* for (i = ix; i >= 0; i--) { leftOffset += tens * digit; tens *= 10; }
RegionValue(name, regLeft, i, tens, leftOffset) ==
    IF i < 0 THEN leftOffset
    ELSE RegionValue(name, regLeft, i - 1, MulInt(tens, 10),
            AddInt(leftOffset, MulInt(tens, DigitValue(CharAt(name, regLeft + i)))))

RECURSIVE RegionOverflows(_, _, _, _, _)
\* Some tens * digit, leftOffset += or tens *= 10 of that loop leaves the
\* range of int (tens and the digits are not negative up to there).
RegionOverflows(name, regLeft, i, tens, leftOffset) ==
    IF i < 0 THEN FALSE
    ELSE LET d == DigitValue(CharAt(name, regLeft + i))
         IN  IF d > 0 /\ tens > INT_MAX \div d THEN TRUE
             ELSE IF leftOffset >= 0 /\ tens * d > INT_MAX - leftOffset THEN TRUE
             ELSE IF tens > INT_MAX \div 10 THEN TRUE
             ELSE RegionOverflows(name, regLeft, i - 1, tens * 10,
                                  leftOffset + tens * d)

\* The left offset parsed from NAME/START-END.
LeftOffset(focusName, prefix) ==
    IF Len(focusName) > Len(prefix) + 1 /\ CharAt(focusName, Len(prefix)) = "/"
    THEN LET regLeft == Len(prefix) + 1
         IN  IF isdigit(CharAt(focusName, regLeft))
             THEN RegionValue(focusName, regLeft, DigitRun(focusName, regLeft, 0), 1, -1)
             ELSE 0
    ELSE 0

\* The indices of S (a set of naturals) in increasing order.
RECURSIVE Ascending(_)
Ascending(S) ==
    IF S = {} THEN << >>
    ELSE LET m == CHOOSE x \in S : \A y \in S : x <= y
         IN  << m >> \o Ascending(S \ {m})

\* The second pass through the file: the dimensions, the names and the
\* encoded block of the full alignment.
Encoded(f, opts) ==
    LET nCodes == Len(opts.alphabet.str)
        nSites == Len(f[1].seq)
        nSeqs  == Len(f)
    IN  [EmptyAlignment(opts.alphabet) EXCEPT
            !.nSeqs = nSeqs, !.nSites = nSites, !.nCodes = nCodes,
            !.names = [s \in 1..nSeqs |-> f[s].name],
            !.sequences =
                [k \in 1..(nSites * nSeqs) |->
                    MSAReadCode(f[((k - 1) \div nSites) + 1].seq[((k - 1) % nSites) + 1],
                                opts.alphabet, nCodes)]]

\* The alignment MSARead returns for an accepted file.
MSAReadResult(f, opts) ==
    LET enc == Encoded(f, opts)
        nCodes == enc.nCodes
        nSites == enc.nSites
        nSeqs  == enc.nSeqs
        \* Focus mode: locate the focus sequence
        full == [enc EXCEPT !.target =
                    IF opts.target.null THEN -1
                    ELSE FindTarget(enc.names, opts.target.str, 0, -1)]
        validSeqs  == { s \in 0..(nSeqs - 1) : SeqValid(full, s) }
        validSites == { i \in 0..(nSites - 1) : SiteValid(full, opts, i) }
        nValidSeqs  == Cardinality(validSeqs)
        nValidSites == Cardinality(validSites)
        rows == Ascending(validSeqs)
        cols == Ascending(validSites)
        leftOffset == IF full.target >= 0
                      THEN LeftOffset(full.names[full.target + 1], opts.target.str)
                      ELSE 0
        offsets == IF full.target >= 0
                   THEN [ix \in 1..nValidSites |-> AddInt(cols[ix] + 1, leftOffset)]
                   ELSE << >>
        targetShift == IF full.target >= 0
                       THEN Cardinality({ s \in validSeqs : s <= full.target }) - 1
                       ELSE full.target
        \* Copy only selected rows and columns
        reduce == nValidSeqs < nSeqs \/ nValidSites < nSites
        rSeqs  == IF reduce THEN nValidSeqs ELSE nSeqs
        rSites == IF reduce THEN nValidSites ELSE nSites
        reduced == IF reduce
                   THEN [k \in 1..(nValidSites * nValidSeqs) |->
                            seq(full, rows[((k - 1) \div nValidSites) + 1],
                                      cols[((k - 1) % nValidSites) + 1])]
                   ELSE full.sequences
        \* Shift any lowercase codes back to uppercase: only under codesAA
        shifted == IF IsCodesAA(opts.alphabet)
                   THEN [k \in 1..Len(reduced) |->
                            IF reduced[k] < 0 THEN reduced[k] + nCodes ELSE reduced[k]]
                   ELSE reduced
    IN  [full EXCEPT
            !.nSeqs = rSeqs, !.nSites = rSites,
            !.sequences = shifted,
            !.target = targetShift,
            !.offsets = offsets,
            \* Intialize weights to 1.0
            !.weights = [s \in 1..rSeqs |-> One],
            !.nEff = R(rSeqs, 1)]

MSARead ==
    /\ pc = "MSARead"
    /\ \E g \in Garbage(Lines(file)) :
          /\ FirstPass(Lines(file), g) = "ok"
          /\ ali' = MSAReadResult(ParsedRecords(Lines(file), g), options)
    /\ pc' = "MSAReweightSequences"
    /\ UNCHANGED << file, options, trial, threads >>

\* The first pass ends the run: a line that should start with '>' does
\* not, or a sequence is not as long as the first.
MSAReadExit ==
    /\ pc = "MSARead"
    /\ \E g \in Garbage(Lines(file)) : FirstPass(Lines(file), g) = "exit"
    /\ pc' = "exit"
    /\ UNCHANGED << file, options, ali, trial, threads >>

\* strlen of the unwritten seq runs off the buffer: the process dies.
MSAReadCrash ==
    /\ pc = "MSARead"
    /\ ~IsMarked(Lines(file)[1])
    /\ pc' = "crashed"
    /\ UNCHANGED << file, options, ali, trial, threads >>

\* The focus name and the columns kept make an int of lines 434-452 leave
\* its range: in the region start, or in i + 1 + leftOffset.
IntOverflow(f, opts) ==
    LET enc  == Encoded(f, opts)
        full == [enc EXCEPT !.target =
                    IF opts.target.null THEN -1
                    ELSE FindTarget(enc.names, opts.target.str, 0, -1)]
        focusName == full.names[full.target + 1]
        regLeft   == Len(opts.target.str) + 1
        leftOffset == LeftOffset(focusName, opts.target.str)
    IN  /\ full.target >= 0
        /\ \/ /\ Len(focusName) > Len(opts.target.str) + 1
              /\ CharAt(focusName, Len(opts.target.str)) = "/"
              /\ isdigit(CharAt(focusName, regLeft))
              /\ RegionOverflows(focusName, regLeft,
                                 DigitRun(focusName, regLeft, 0), 1, -1)
           \/ \E i \in 0..(enc.nSites - 1) :
                 /\ SiteValid(full, opts, i)
                 /\ leftOffset >= 0 /\ i + 1 > INT_MAX - leftOffset

\* Signed overflow in a build that traps it: the process dies.
MSAReadTrap ==
    /\ pc = "MSARead"
    /\ \E g \in Garbage(Lines(file)) :
          /\ FirstPass(Lines(file), g) = "ok"
          /\ IntOverflow(ParsedRecords(Lines(file), g), options)
    /\ pc' = "crashed"
    /\ UNCHANGED << file, options, ali, trial, threads >>

\* MSARead up to the end of its second pass: the full block is encoded,
\* nothing is filtered or shifted yet.
MSAReadEncode ==
    /\ pc = "MSARead"
    /\ \E g \in Garbage(Lines(file)) :
          /\ FirstPass(Lines(file), g) = "ok"
          /\ ali' = Encoded(ParsedRecords(Lines(file), g), options)
    /\ pc' = "MSARead:encoded"
    /\ UNCHANGED << file, options, trial, threads >>

\* ---------------------------------------------------- MSAReweightSequences

\* theta >= 0 && theta <= 1
ThetaInRange(theta) == RLe(Zero, theta) /\ RLe(theta, One)

\* id: the number of columns where rows s and t hold the same code.
Identity(a, s, t) ==
    Cardinality({ n \in 0..(a.nSites - 1) : seq(a, s, n) = seq(a, t, n) })

\* IsNeighbor with the comparison made strict: id > ((1 - theta) * nSites).
IsNeighbor_Strict(a, theta, s, t) ==
    RLt(RMul(RSub(One, theta), R(a.nSites, 1)), R(Identity(a, s, t), 1))

\* id >= ((1 - theta) * ali->nSites)
IsNeighbor(a, theta, s, t) ==
    RLe(RMul(RSub(One, theta), R(a.nSites, 1)), R(Identity(a, s, t), 1))

RECURSIVE OpenMPRow(_, _, _, _, _)
\* The inner loop of the OpenMP variant over t = t0 .. nSeqs - 1: only
\* weights[s], here w, is incremented.
OpenMPRow(a, theta, s, t0, w) ==
    IF t0 >= a.nSeqs THEN w
    ELSE OpenMPRow(a, theta, s, t0 + 1,
            IF s # t0 /\ IsNeighbor(a, theta, s, t0) THEN RAdd(w, One) ELSE w)

\* OpenMP variant: all ordered pairs, each row from its own 1.0.
NeighborhoodOpenMP(a, theta) ==
    [s \in 1..a.nSeqs |-> OpenMPRow(a, theta, s - 1, 0, One)]

RECURSIVE SingleCoreLoop(_, _, _, _, _)
\* Single-core variant from the pair (s, t) on: each unordered pair once,
\* both weights incremented.
SingleCoreLoop(a, theta, s, t, w) ==
    IF s >= a.nSeqs - 1 THEN w
    ELSE IF t >= a.nSeqs THEN SingleCoreLoop(a, theta, s + 1, s + 2, w)
    ELSE SingleCoreLoop(a, theta, s, t + 1,
            IF IsNeighbor(a, theta, s, t)
            THEN [w EXCEPT ![s + 1] = RAdd(@, One), ![t + 1] = RAdd(@, One)]
            ELSE w)

RECURSIVE SingleCoreLoop_OneSided(_, _, _, _, _)
SingleCoreLoop_OneSided(a, theta, s, t, w) ==
    IF s >= a.nSeqs - 1 THEN w
    ELSE IF t >= a.nSeqs THEN SingleCoreLoop_OneSided(a, theta, s + 1, s + 2, w)
    ELSE SingleCoreLoop_OneSided(a, theta, s, t + 1,
            IF IsNeighbor(a, theta, s, t)
            THEN [w EXCEPT ![s + 1] = RAdd(@, One)]
            ELSE w)

\* NeighborhoodSingleCore with the increment of weights[t] left out, as if
\* the loop over t > s were the loop of the OpenMP variant.
NeighborhoodSingleCore_OneSided(a, theta) ==
    SingleCoreLoop_OneSided(a, theta, 0, 1, [s \in 1..a.nSeqs |-> One])

NeighborhoodSingleCore(a, theta) ==
    SingleCoreLoop(a, theta, 0, 1, [s \in 1..a.nSeqs |-> One])

\* MSAReweightSequencesResult with the scaling moved inside the test of
\* theta.
MSAReweightSequencesResult_ScaleInRange(a, theta, scale, openmp) ==
    LET ones == [s \in 1..a.nSeqs |-> One]
        hood == IF openmp THEN NeighborhoodOpenMP(a, theta)
                ELSE NeighborhoodSingleCore(a, theta)
        w    == IF ThetaInRange(theta)
                THEN [s \in 1..a.nSeqs |-> RMul(RDiv(One, hood[s]), scale)]
                ELSE ones
    IN  [a EXCEPT !.weights = w, !.nEff = RSum(w)]

\* The alignment MSAReweightSequences leaves; openmp is the build (_OPENMP).
MSAReweightSequencesResult(a, theta, scale, openmp) ==
    LET ones == [s \in 1..a.nSeqs |-> One]
        hood == IF openmp THEN NeighborhoodOpenMP(a, theta)
                ELSE NeighborhoodSingleCore(a, theta)
        inv  == IF ThetaInRange(theta)
                THEN [s \in 1..a.nSeqs |-> RDiv(One, hood[s])]
                ELSE ones
        w    == [s \in 1..a.nSeqs |-> RMul(inv[s], scale)]
    IN  [a EXCEPT !.weights = w, !.nEff = RSum(w)]

MSAReweightSequences ==
    /\ pc = "MSAReweightSequences"
    /\ \E openmp \in BOOLEAN :
          ali' = MSAReweightSequencesResult(ali, options.theta, options.scale, openmp)
    /\ pc' = "MSACountMarginals"
    /\ UNCHANGED << file, options, trial, threads >>

\* ------------------------------------------------------- MSACountMarginals

\* The pairs i < j in the order of the loops over i and j.
PairsOf(nSites) ==
    LET keys == Ascending({ x[1] * nSites + x[2] :
                            x \in { y \in (0..(nSites - 1)) \X (0..(nSites - 1)) :
                                    y[1] < y[2] } })
    IN  [p \in 1..Len(keys) |-> << keys[p] \div nSites, keys[p] % nSites >>]

\* A zero-initialised C array of n cells of numeric_t, by 0-based index:
\* nz holds the cells that were added to; a cell outside nz is NaN if it
\* lies in one of the ranges << first, last >> of nan (it was 0.0 when its
\* block was multiplied by Inf) and 0.0 otherwise.
Table(n) == [n |-> n, nz |-> [ix \in {} |-> Zero], nan |-> {}]

Cell(table, ix) ==
    IF ix \in DOMAIN table.nz THEN table.nz[ix]
    ELSE IF \E r \in table.nan : r[1] <= ix /\ ix <= r[2] THEN R(0, 0)
    ELSE Zero

\* table[ix] += v
Store(table, ix, v) ==
    IF v = Zero THEN table
    ELSE [table EXCEPT !.nz = [k \in (DOMAIN table.nz) \cup {ix} |->
                                  IF k = ix THEN RAdd(Cell(table, ix), v)
                                  ELSE table.nz[k]]]

RECURSIVE StoreAll(_, _, _)
\* table[ix] += v for the writes k .. Len(writes) in order (those the
\* code's guard lets through: on).  A write outside the array is undefined
\* behaviour and is not stored.
StoreAll(table, writes, k) ==
    IF k > Len(writes) THEN table
    ELSE StoreAll(
            IF writes[k].on /\ writes[k].ix >= 0 /\ writes[k].ix < table.n
            THEN Store(table, writes[k].ix, writes[k].v)
            ELSE table,
            writes, k + 1)

\* Some write falls outside an array of n cells.
OutOfTable(writes, n) ==
    \E k \in 1..Len(writes) : writes[k].on /\ (writes[k].ix < 0 \/ writes[k].ix >= n)

\* fi(i, seq(s, i)) += weights[s] * Zinv, over s and i.
StandardFiWrites(a) ==
    LET Zinv == RDiv(One, a.nEff)
    IN  [k \in 1..(a.nSeqs * a.nSites) |->
            LET s == (k - 1) \div a.nSites
                i == (k - 1) % a.nSites
            IN  [on |-> TRUE, ix |-> fiIx(a, i, seq(a, s, i)),
                 v |-> RMul(a.weights[s + 1], Zinv)]]

\* fij(i, j, seq(s, i), seq(s, j)) += weights[s] * Zinv, over s and i < j.
StandardFijWrites(a) ==
    LET Zinv == RDiv(One, a.nEff)
        pairs == PairsOf(a.nSites)
    IN  [k \in 1..(a.nSeqs * Len(pairs)) |->
            LET s == (k - 1) \div Len(pairs)
                p == pairs[((k - 1) % Len(pairs)) + 1]
            IN  [on |-> TRUE,
                 ix |-> fijIx(a, p[1], p[2], seq(a, s, p[1]), seq(a, s, p[2])),
                 v |-> RMul(a.weights[s + 1], Zinv)]]

NumPairs(a) == (a.nSites * (a.nSites - 1)) \div 2

\* Regular marginals.
StandardMarginals(a) ==
    [a EXCEPT !.fi = StoreAll(Table(a.nSites * a.nCodes), StandardFiWrites(a), 1),
              !.fij = StoreAll(Table(NumPairs(a) * a.nCodes * a.nCodes),
                               StandardFijWrites(a), 1)]

\* if (seq(s, i) > 0) fi(i, seq(s, i) - 1) += weights[s], over s and i.
GapReducedFiWrites(a) ==
    [k \in 1..(a.nSeqs * a.nSites) |->
        LET s == (k - 1) \div a.nSites
            i == (k - 1) % a.nSites
        IN  [on |-> seq(a, s, i) > 0,
             ix |-> fiIx(a, i, seq(a, s, i) - 1),
             v |-> a.weights[s + 1]]]

\* The same for fij(i, j, seq(s, i) - 1, seq(s, j) - 1), over s and i < j.
GapReducedFijWrites(a) ==
    LET pairs == PairsOf(a.nSites)
    IN  [k \in 1..(a.nSeqs * Len(pairs)) |->
            LET s == (k - 1) \div Len(pairs)
                p == pairs[((k - 1) % Len(pairs)) + 1]
            IN  [on |-> seq(a, s, p[1]) > 0 /\ seq(a, s, p[2]) > 0,
                 ix |-> fijIx(a, p[1], p[2], seq(a, s, p[1]) - 1, seq(a, s, p[2]) - 1),
                 v |-> a.weights[s + 1]]]

RECURSIVE RSumOver(_, _)
\* The sum of the cells of table at the indices S.
RSumOver(table, S) ==
    IF S = {} THEN Zero
    ELSE LET m == CHOOSE x \in S : \A y \in S : x <= y
         IN  RAdd(table.nz[m], RSumOver(table, S \ {m}))

\* fsum of block b of n cells: the cells first .. first + n - 1 added up.
BlockSum(table, b, n) ==
    RSumOver(table, { ix \in DOMAIN table.nz : ix >= b * n /\ ix < (b + 1) * n })

\* Normalize conditional distributions: each of the nBlocks blocks of n
\* cells is multiplied by fsumInv = 1.0 / fsum of its own cells.  A block
\* that sums to 0.0 is multiplied by Inf: its cells that hold 0.0 turn NaN.
Normalized(table, nBlocks, n) ==
    LET zeroBlocks == { b \in 0..(nBlocks - 1) : BlockSum(table, b, n) = Zero }
    IN  [table EXCEPT
            !.nz = [ix \in DOMAIN table.nz |->
                      RMul(table.nz[ix], RDiv(One, BlockSum(table, ix \div n, n)))],
            !.nan = { << b * n, (b + 1) * n - 1 >> : b \in { z \in zeroBlocks : n > 0 } }]

\* gapi(i): the weight of the rows with a gap at i, times Zinv.
GapiOf(a) ==
    LET Zinv == RDiv(One, a.nEff)
    IN  [i \in 1..a.nSites |->
            RMul(RSumTo([s \in 1..a.nSeqs |->
                            IF seq(a, s - 1, i - 1) = 0 THEN a.weights[s] ELSE Zero],
                        a.nSeqs),
                 Zinv)]

\* UngapijOf counting every row without a soft code: >= 0 for > 0.
UngapijOf_CountsGaps(a) ==
    LET Zinv == RDiv(One, a.nEff)
        pairs == PairsOf(a.nSites)
    IN  [p \in 1..NumPairs(a) |->
            RMul(RSumTo([s \in 1..a.nSeqs |->
                            IF seq(a, s - 1, pairs[p][1]) >= 0
                               /\ seq(a, s - 1, pairs[p][2]) >= 0
                            THEN a.weights[s] ELSE Zero],
                        a.nSeqs),
                 Zinv)]

\* ungapij(i, j): the weight of the rows with a code > 0 at both i and j,
\* times Zinv.
UngapijOf(a) ==
    LET Zinv == RDiv(One, a.nEff)
        pairs == PairsOf(a.nSites)
    IN  [p \in 1..NumPairs(a) |->
            RMul(RSumTo([s \in 1..a.nSeqs |->
                            IF seq(a, s - 1, pairs[p][1]) > 0
                               /\ seq(a, s - 1, pairs[p][2]) > 0
                            THEN a.weights[s] ELSE Zero],
                        a.nSeqs),
                 Zinv)]

\* Marginals conditioned on ungapped.
GapReducedMarginals(a0) ==
    LET a == [a0 EXCEPT !.nCodes = Len(a0.alphabet.str) - 1]
        fi  == StoreAll(Table(a.nSites * a.nCodes), GapReducedFiWrites(a), 1)
        fij == StoreAll(Table(NumPairs(a) * a.nCodes * a.nCodes),
                        GapReducedFijWrites(a), 1)
    IN  [a EXCEPT !.gapi = GapiOf(a), !.ungapij = UngapijOf(a),
                  !.fi = Normalized(fi, a.nSites, a.nCodes),
                  !.fij = Normalized(fij, NumPairs(a), a.nCodes * a.nCodes)]

MSACountMarginalsResult(a, opts) ==
    IF opts.estimatorMAP = INFER_MAP_PLM_GAPREDUCE
    THEN GapReducedMarginals(a)
    ELSE StandardMarginals(a)

\* Some write of MSACountMarginals leaves fi or fij.  The guards of the
\* gap-reduced branch keep its indices inside the tables.
StrayWrite(a, opts) ==
    /\ opts.estimatorMAP # INFER_MAP_PLM_GAPREDUCE
    /\ \/ OutOfTable(StandardFiWrites(a), a.nSites * a.nCodes)
       \/ OutOfTable(StandardFijWrites(a), NumPairs(a) * a.nCodes * a.nCodes)

\* Every write stays inside the tables.
MSACountMarginals ==
    /\ pc = "MSACountMarginals"
    /\ ~StrayWrite(ali, options)
    /\ ali' = MSACountMarginalsResult(ali, options)
    /\ pc' = "MSAEstimateSampleSize"
    /\ UNCHANGED << file, options, trial, threads >>

\* A write fell outside fi or fij (a negative code as index): undefined
\* behaviour.  Outcome one: the process dies on the damaged heap.
MSACountMarginalsCrash ==
    /\ pc = "MSACountMarginals"
    /\ StrayWrite(ali, options)
    /\ pc' = "crashed"
    /\ UNCHANGED << file, options, ali, trial, threads >>

\* Outcome two: the stray writes land in memory nothing reads again and
\* the run goes on with tables that miss them.
MSACountMarginalsStray ==
    /\ pc = "MSACountMarginals"
    /\ StrayWrite(ali, options)
    /\ ali' = MSACountMarginalsResult(ali, options)
    /\ pc' = "MSAEstimateSampleSize"
    /\ UNCHANGED << file, options, trial, threads >>

\* --------------------------------------------------- MSAEstimateSampleSize

\* Values the Robbins-Monro iterate can end at, as exp(uncN).
SampleSizes == { R(1, 2), R(3, 1) }

\* exp(uncN) after the iterations.  uncN starts at log(nEff) and moves by
\* finite steps: it is finite, and exp(uncN) > 0, unless nEff is 0, where
\* log gives -Inf, every step leaves -Inf, and exp gives 0.
FinalExp(a) == IF a.nEff = Zero THEN { Zero } ELSE SampleSizes

\* Rescaled with the loop over the weights left out.
Rescaled_WeightsKept(a, expU) == [a EXCEPT !.nEff = expU]

\* Rescaled that also gives up the site table.
Rescaled_TableFreed(a, expU) ==
    LET ratio == RDiv(expU, a.nEff)
    IN  [a EXCEPT !.weights = [s \in 1..a.nSeqs |-> RMul(a.weights[s], ratio)],
                  !.nEff = expU, !.fi = NULLTable]

\* Rescaled with the ratio turned over: nEff / exp(uncN).
Rescaled_RatioInverted(a, expU) ==
    LET ratio == RDiv(a.nEff, expU)
    IN  [a EXCEPT !.weights = [s \in 1..a.nSeqs |-> RMul(a.weights[s], ratio)],
                  !.nEff = expU]

\* The rescaling that ends the estimator, expU being exp(uncN).
Rescaled(a, expU) ==
    LET ratio == RDiv(expU, a.nEff)
    IN  [a EXCEPT !.weights = [s \in 1..a.nSeqs |-> RMul(a.weights[s], ratio)],
                  !.nEff = expU]

\* floor of a finite numeric_t value.
Floor(x) == x.n \div x.d

\* The values RandomUniform() draws from, of [0, 1).
RandomUniform == { Zero, R(1, 4), R(1, 2), R(3, 4) }

\* Neff = exp(uncN) in an iteration: nEff in the first, then what the
\* updates have made of it.
TrialSizes(a) == { a.nEff, R(5, 2) } \cup SampleSizes

\* Adjust local effective sample size given gap statistics
NeffLocalOf(a, opts, Neff, i, j) ==
    IF opts.estimatorMAP = INFER_MAP_PLM_GAPREDUCE
    THEN RMul(Neff, ungapij(a, i, j))
    ELSE Neff

\* Nint with the uniform draw compared by <=.
NintOf_Inclusive(NeffLocal, U) ==
    Floor(NeffLocal)
        + (IF RLe(U, RSub(NeffLocal, R(Floor(NeffLocal), 1))) THEN 1 ELSE 0)

\* (int) (floor(NeffLocal) + (RandomUniform() < (NeffLocal - floor(NeffLocal))))
NintOf(NeffLocal, U) ==
    Floor(NeffLocal)
        + (IF RLt(U, RSub(NeffLocal, R(Floor(NeffLocal), 1))) THEN 1 ELSE 0)

\* The values RandomInt(n) draws from: the indices below n.
RandomInt(n) == 0..(n - 1)

\* The draws of i and j that end the loop while (j == i).
DistinctDraws(n) == { y \in RandomInt(n) \X RandomInt(n) : y[1] # y[2] }

\* main calls the estimator only for theta on [0, 1]; the draw of j # i
\* ends only when there are two sites to draw from.
MSAEstimateSampleSize ==
    /\ pc = "MSAEstimateSampleSize"
    /\ ThetaInRange(options.theta)
    /\ DistinctDraws(ali.nSites) # {}
    /\ \E expU \in FinalExp(ali) : ali' = Rescaled(ali, expU)
    /\ pc' = "InferPairModel"
    /\ UNCHANGED << file, options, trial, threads >>

\* One batch trial of an iteration, up to the integer sample size: the
\* sites i # j, the local sample size and its rounding.
BatchTrial ==
    /\ pc = "MSAEstimateSampleSize"
    /\ ThetaInRange(options.theta)
    /\ \E Neff \in TrialSizes(ali), y \in DistinctDraws(ali.nSites),
          U \in RandomUniform :
          LET NeffLocal == NeffLocalOf(ali, options, Neff, y[1], y[2])
          IN  trial' = [batch |-> 0, i |-> y[1], j |-> y[2], Neff |-> Neff,
                        NeffLocal |-> NeffLocal, U |-> U,
                        Nint |-> NintOf(NeffLocal, U)]
    /\ pc' = "MSAEstimateSampleSize:trial"
    /\ UNCHANGED << file, options, ali, threads >>

\* while (j == i) j = RandomInt(nSites) never ends on fewer than two sites.
MSAEstimateSampleSizeSpins ==
    /\ pc = "MSAEstimateSampleSize"
    /\ ThetaInRange(options.theta)
    /\ DistinctDraws(ali.nSites) = {}
    /\ pc' = "spinning"
    /\ UNCHANGED << file, options, ali, trial, threads >>

\* main without the test of theta: the estimator may always be skipped.
SkipEstimateSampleSize_Always ==
    /\ pc = "MSAEstimateSampleSize"
    /\ pc' = "InferPairModel"
    /\ UNCHANGED << file, options, ali, trial, threads >>

\* theta outside [0, 1]: main skips the estimator.
SkipEstimateSampleSize ==
    /\ pc = "MSAEstimateSampleSize"
    /\ ~ThetaInRange(options.theta)
    /\ pc' = "InferPairModel"
    /\ UNCHANGED << file, options, ali, trial, threads >>

\* The inference stage reads the alignment and leaves it alone.
InferPairModel ==
    /\ pc = "InferPairModel"
    /\ pc' = "done"
    /\ UNCHANGED << file, options, ali, trial, threads >>

\* ------------------------------------------------------------------ inputs

\* Characters of the sequence lines: gap and a symbol; and with them a
\* second symbol, a lowercase form and a character of no alphabet.
PlainChars == { "-", "A" }

MixedChars == { "-", "A", "C", "a", "X" }

\* Record r is named s<r>.
RecordName(r) == << "s", CHOOSE c \in { "1", "2", "3", "4", "5", "6", "7", "8", "9" } : DigitValue(c) = r >>

\* The well-formed files of S records of L characters of chars each.
FilesOf(S, L, chars) ==
    { [r \in 1..S |-> [marker |-> TRUE, name |-> RecordName(r), seq |-> m[r]]] :
      m \in [1..S -> [1..L -> chars]] }

\* The shapes << records, columns >> of at most n cells.
Shapes(n) == { y \in (1..n) \X (1..n) : y[1] * y[2] <= n }

Files ==
    UNION ( { FilesOf(x[1], x[2], PlainChars) : x \in Shapes(MaxPlainCells) }
            \cup { FilesOf(x[1], x[2], MixedChars) : x \in Shapes(MaxMixedCells) } )

\* The default alphabet and one given with -a.
Alphabets ==
    { [ptr |-> "codesAA", str |-> codesAA],
      [ptr |-> "argv", str |-> << "-", "A", "C" >>] }

\* -t and -s: theta below, on the ends of, inside and above [0, 1].
ThetaScales ==
    { << R(-1, 1), R(2, 1) >>, << R(0, 1), R(1, 1) >>, << R(1, 2), R(1, 1) >>,
      << R(1, 2), R(2, 1) >>, << R(1, 1), R(1, 2) >>, << R(2, 1), R(1, 1) >> }

NoTarget == [null |-> TRUE, str |-> << >>]

\* The parallel loop is not under way.
NoThreads == << >>

\* No batch trial is under way.
NoTrial == [batch |-> -1]

Init ==
    /\ file \in Files
    /\ \E ts \in ThetaScales :
          options \in [ theta : { ts[1] }, scale : { ts[2] },
                        estimatorMAP : { INFER_MAP_PLM, INFER_MAP_PLM_GAPREDUCE },
                        target : { NoTarget }, alphabet : Alphabets ]
    /\ ali = EmptyAlignment(options.alphabet)
    /\ pc = "MSARead"
    /\ trial = NoTrial
    /\ threads = NoThreads

Next ==
    \/ MSARead
    \/ MSAReweightSequences
    \/ MSACountMarginals
    \/ MSACountMarginalsCrash
    \/ MSACountMarginalsStray
    \/ MSAEstimateSampleSize
    \/ MSAEstimateSampleSizeSpins
    \/ SkipEstimateSampleSize
    \/ InferPairModel

Spec == Init /\ [][Next]_vars

\* --------------------------------------------- inputs of the encoding alone

CodeChars == { "-", ".", "A", "a", "C", "c", "X", "x", "Y", "y" }

\* The default alphabet; alphabets given with -a, one of them with the text
\* of the default one, one with a repeated and one with a lowercase symbol,
\* two of a single symbol.
CodeAlphabets ==
    { [ptr |-> "codesAA", str |-> codesAA],
      [ptr |-> "argv", str |-> codesAA],
      [ptr |-> "argv", str |-> << "-", "A", "C" >>],
      [ptr |-> "argv", str |-> << "A", "C" >>],
      [ptr |-> "argv", str |-> << "A", "A", "Y" >>],
      [ptr |-> "argv", str |-> << "-", "a", "A" >>],
      [ptr |-> "argv", str |-> << "A" >>],
      [ptr |-> "argv", str |-> << "-" >>] }

InitCode ==
    /\ file \in FilesOf(1, 1, CodeChars) \cup FilesOf(1, 2, { "-", ".", "a", "Y" })
    /\ options \in [ theta : { R(1, 5) }, scale : { One },
                     estimatorMAP : { INFER_MAP_PLM },
                     target : { NoTarget }, alphabet : CodeAlphabets ]
    /\ ali = EmptyAlignment(options.alphabet)
    /\ pc = "MSARead"
    /\ trial = NoTrial
    /\ threads = NoThreads

NextCode == MSAReadEncode

SpecCode == InitCode /\ [][NextCode]_vars

\* ------------------------------------------------------ inputs, focus mode

\* Gap, a symbol, its lowercase form and a character of no alphabet.
FocusChars == { "-", "A", "a", "X" }

\* Names with a region of two digits, with a malformed region, without one.
FocusNames ==
    << << "q" >>, << "q", "/", "2", "1" >>, << "q", "/", "x" >>, << "r" >> >>

\* Record r of a file whose first record bears name number k.
FocusName(k, r) == FocusNames[((r + k - 2) % Len(FocusNames)) + 1]

FocusFilesOf(S, L) ==
    { [r \in 1..S |-> [marker |-> TRUE, name |-> FocusName(k, r), seq |-> m[r]]] :
      k \in 1..Len(FocusNames), m \in [1..S -> [1..L -> FocusChars]] }

FocusFiles == UNION { FocusFilesOf(x[1], x[2]) : x \in Shapes(MaxFocusCells) }

\* No -f, a prefix several names start with, a prefix of no name.
FocusTargets ==
    { NoTarget, [null |-> FALSE, str |-> << "q" >>], [null |-> FALSE, str |-> << "z" >>] }

InitFocus ==
    /\ file \in FocusFiles
    /\ options \in [ theta : { R(1, 5) }, scale : { One },
                     estimatorMAP : { INFER_MAP_PLM, INFER_MAP_PLM_GAPREDUCE },
                     target : FocusTargets, alphabet : Alphabets ]
    /\ ali = EmptyAlignment(options.alphabet)
    /\ pc = "MSARead"
    /\ trial = NoTrial
    /\ threads = NoThreads

NextFocus == MSARead

SpecFocus == InitFocus /\ [][NextFocus]_vars

\* ---------------------------------------------- inputs, malformed files

\* Records with and without '>', with sequences of different lengths.
FormatFiles ==
    UNION { [1..S -> [ marker : BOOLEAN, name : { RecordName(1), RecordName(2) },
                       seq : UNION { [1..L -> { "A" }] : L \in 0..MaxFormatLen } ]] :
            S \in 1..MaxFormatRecords }

InitFormat ==
    /\ file \in FormatFiles
    /\ options \in [ theta : { R(1, 5) }, scale : { One },
                     estimatorMAP : { INFER_MAP_PLM },
                     target : { NoTarget }, alphabet : Alphabets ]
    /\ ali = EmptyAlignment(options.alphabet)
    /\ pc = "MSARead"
    /\ trial = NoTrial
    /\ threads = NoThreads

NextFormat ==
    \/ MSARead
    \/ MSAReadExit
    \/ MSAReadCrash

SpecFormat == InitFormat /\ [][NextFormat]_vars

\* ------------------------------------------- inputs, regions in names

\* Names of the first record: the prefix q, then nothing, a region with a
\* start of one to ten digits, or something else.
RegionNames ==
    << << "q" >>, << "q", "2" >>, << "q", "/" >>, << "q", "/", "x" >>,
       << "q", "/", "7" >>, << "q", "/", "2", "1" >>,
       << "q", "/", "0", "0", "7" >>, << "q", "/", "2", "1", "-", "9" >>,
       << "q", "/", "1", "0", "0", "0", "0", "0", "0", "0", "0", "0" >>,
       << "q", "/", "2", "1", "4", "7", "4", "8", "3", "6", "4", "7" >>,
       << "q", "/", "2", "1", "4", "7", "4", "8", "3", "6", "4", "8" >>,
       << "q", "/", "4", "2", "9", "4", "9", "6", "7", "2", "9", "7" >> >>

RegionFilesOf(S, L) ==
    { [r \in 1..S |-> [marker |-> TRUE,
                       name |-> IF r = 1 THEN RegionNames[k] ELSE RecordName(r),
                       seq |-> m[r]]] :
      k \in 1..Len(RegionNames), m \in [1..S -> [1..L -> PlainChars]] }

RegionFiles == UNION { RegionFilesOf(x[1], x[2]) : x \in Shapes(MaxRegionCells) }

InitRegion ==
    /\ file \in RegionFiles
    /\ options \in [ theta : { R(1, 5) }, scale : { One },
                     estimatorMAP : { INFER_MAP_PLM },
                     target : { [null |-> FALSE, str |-> << "q" >>] },
                     alphabet : Alphabets ]
    /\ ali = EmptyAlignment(options.alphabet)
    /\ pc = "MSARead"
    /\ trial = NoTrial
    /\ threads = NoThreads

NextRegion ==
    \/ MSARead
    \/ MSAReadTrap

SpecRegion == InitRegion /\ [][NextRegion]_vars

\* ------------------------------------------ inputs, the batch trial

\* The alignment as main hands it to the estimator.
Prepared(f, opts) ==
    MSACountMarginalsResult(
        MSAReweightSequencesResult(MSAReadResult(f, opts), opts.theta, opts.scale,
                                   FALSE),
        opts)

\* Files of gaps and symbols, of two columns and more.
TrialFiles ==
    UNION { FilesOf(x[1], x[2], PlainChars) :
            x \in { y \in Shapes(MaxTrialCells) : y[2] >= 2 } }

InitTrial ==
    /\ file \in TrialFiles
    /\ options \in [ theta : { R(1, 2) }, scale : { One, R(2, 1) },
                     estimatorMAP : { INFER_MAP_PLM, INFER_MAP_PLM_GAPREDUCE },
                     target : { NoTarget },
                     alphabet : { [ptr |-> "codesAA", str |-> codesAA] } ]
    /\ ali = Prepared(file, options)
    /\ pc = "MSAEstimateSampleSize"
    /\ trial = NoTrial
    /\ threads = NoThreads

NextTrial == BatchTrial

SpecTrial == InitTrial /\ [][NextTrial]_vars

\* ------------------------------------- inputs, the parallel neighbor loop

\* The weight an iteration s of the parallel loop increments for a neighbor
\* t, were every iteration to credit its partner instead of itself.
OmpCell_Partner(s, t) == t

\* ali->weights[s] += 1.0: the weight the iteration s increments for a
\* neighbor t.
OmpCell(s, t) == s

\* The iteration s tests its sequence against t: s != t and
\* id >= (1 - theta) * nSites.
OmpCounts(s, t) == s # t /\ IsNeighbor(ali, options.theta, s, t)

\* An iteration finds that t is no neighbor of s and moves on to t + 1.
ParallelSkip ==
    /\ pc = "MSAReweightSequences:parallel for"
    /\ \E s \in DOMAIN threads :
          /\ threads[s].t < ali.nSeqs
          /\ threads[s].held = -1
          /\ ~OmpCounts(s, threads[s].t)
          /\ threads' = [threads EXCEPT ![s].t = @ + 1]
    /\ UNCHANGED << file, options, ali, pc, trial >>

\* An iteration finds a neighbor and loads the weight it is to increment.
ParallelLoad ==
    /\ pc = "MSAReweightSequences:parallel for"
    /\ \E s \in DOMAIN threads :
          /\ threads[s].t < ali.nSeqs
          /\ threads[s].held = -1
          /\ OmpCounts(s, threads[s].t)
          /\ LET c == OmpCell(s, threads[s].t)
             IN  threads' = [threads EXCEPT ![s].held = c,
                                            ![s].reg = ali.weights[c + 1]]
    /\ UNCHANGED << file, options, ali, pc, trial >>

\* An iteration stores the incremented weight and moves on to t + 1.
ParallelStore ==
    /\ pc = "MSAReweightSequences:parallel for"
    /\ \E s \in DOMAIN threads :
          /\ threads[s].held # -1
          /\ ali' = [ali EXCEPT !.weights[threads[s].held + 1] =
                                    RAdd(threads[s].reg, One)]
          /\ threads' = [threads EXCEPT ![s].held = -1, ![s].t = @ + 1]
    /\ UNCHANGED << file, options, pc, trial >>

\* What follows the parallel loop: every count is inverted, every weight
\* scaled, and nEff is their sum.
Joined(a, scale) ==
    LET w == [s \in 1..a.nSeqs |-> RMul(RDiv(One, a.weights[s]), scale)]
    IN  [a EXCEPT !.weights = w, !.nEff = RSum(w)]

\* Every iteration has ended: the loop is left and the function finishes.
ParallelJoin ==
    /\ pc = "MSAReweightSequences:parallel for"
    /\ \A s \in DOMAIN threads : threads[s].t >= ali.nSeqs
    /\ ali' = Joined(ali, options.scale)
    /\ threads' = NoThreads
    /\ pc' = "MSACountMarginals"
    /\ UNCHANGED << file, options, trial >>

\* for (int i = 0; i < ali->nSeqs; i++) ali->weights[i] = 1.0;
AllOnes(a) == [a EXCEPT !.weights = [s \in 1..a.nSeqs |-> One]]

\* Files of one column, and of two columns when of two records at most.
OpenMPFiles ==
    UNION { FilesOf(S, L, PlainChars) :
            S \in 1..MaxOpenMPRows, L \in 1..2 } \
    UNION { FilesOf(S, 2, PlainChars) : S \in 3..MaxOpenMPRows }

\* The alignment is read, every weight is 1.0, and each iteration of the
\* parallel loop is about to test t = 0.
InitOpenMP ==
    /\ file \in OpenMPFiles
    /\ options \in [ theta : { Zero, R(1, 2), One },
                     scale : { R(1, 2), One, R(2, 1) },
                     estimatorMAP : { INFER_MAP_PLM },
                     target : { NoTarget },
                     alphabet : { [ptr |-> "codesAA", str |-> codesAA] } ]
    /\ ali = AllOnes(MSAReadResult(file, options))
    /\ threads = [s \in 0..(ali.nSeqs - 1) |->
                     [t |-> 0, held |-> -1, reg |-> Zero]]
    /\ pc = "MSAReweightSequences:parallel for"
    /\ trial = NoTrial

NextOpenMP ==
    \/ ParallelSkip
    \/ ParallelLoad
    \/ ParallelStore
    \/ ParallelJoin

SpecOpenMP == InitOpenMP /\ [][NextOpenMP]_vars

\* ------------------------------------------------------------------ claims

Rows == 0..(ali.nSeqs - 1)

Sites == 0..(ali.nSites - 1)

RECURSIVE WeightOf(_)
\* The total weight of the rows S.
WeightOf(S) ==
    IF S = {} THEN Zero
    ELSE LET s == CHOOSE x \in S : TRUE
         IN  RAdd(ali.weights[s + 1], WeightOf(S \ {s}))

\* Rows s and t hold the same code in at least (1 - theta) * nSites columns.
Alike(s, t) ==
    Cardinality({ n \in Sites : seq(ali, s, n) = seq(ali, t, n) }) * options.theta.d
        >= (options.theta.d - options.theta.n) * ali.nSites

\* k_s: the rows other than s that are alike to s.
NeighborCount(s) == Cardinality({ t \in Rows \ {s} : Alike(s, t) })

Reweighted == pc = "MSACountMarginals"

UniformWeights(a, scale) ==
    /\ \A s \in 1..a.nSeqs : a.weights[s] = scale
    /\ a.nEff = RMul(R(a.nSeqs, 1), scale)

\* Weights the array may hold when MSAReweightSequences is entered.
PriorWeights(n) ==
    { [s \in 1..n |-> v] : v \in { Zero, R(7, 2), R(0, 0) } }
        \cup { [s \in 1..n |-> R(s, 1)] }

\* C2: with theta below 0 or above 1, MSAReweightSequences leaves every
\* weight equal to scale and nEff equal to nSeqs * scale, whatever the
\* weights were when it was entered.
C2_UniformOutsideRange ==
    /\ (Reweighted /\ ~ThetaInRange(options.theta)) =>
          UniformWeights(ali, options.scale)
    /\ (pc = "MSAReweightSequences" /\ ~ThetaInRange(options.theta)) =>
          \A prior \in PriorWeights(ali.nSeqs), openmp \in BOOLEAN :
              UniformWeights(
                  MSAReweightSequencesResult([ali EXCEPT !.weights = prior],
                                             options.theta, options.scale, openmp),
                  options.scale)

\* Two identical rows, which a theta in range would make neighbors, under
\* a scale other than 1.
C2_Witness ==
    /\ Reweighted /\ ~ThetaInRange(options.theta)
    /\ options.scale # One
    /\ \E s, t \in Rows : s # t /\ \A n \in Sites : seq(ali, s, n) = seq(ali, t, n)
    /\ \A s \in Rows : ali.weights[s + 1] = options.scale

\* C3: the OpenMP variant and the single-core variant of the neighborhood
\* count leave the same weights and the same nEff.
C3_VariantsAgree ==
    (pc = "MSAReweightSequences" \/ Reweighted) =>
        LET omp  == MSAReweightSequencesResult(ali, options.theta, options.scale, TRUE)
            core == MSAReweightSequencesResult(ali, options.theta, options.scale, FALSE)
        IN  /\ omp.weights = core.weights
            /\ omp.nEff = core.nEff
            /\ ThetaInRange(options.theta) =>
                  NeighborhoodOpenMP(ali, options.theta)
                      = NeighborhoodSingleCore(ali, options.theta)
            /\ Reweighted => (ali.weights = omp.weights /\ ali.nEff = omp.nEff)

\* Three rows, the first two neighbors of each other, the third alone.
C3_Witness ==
    /\ Reweighted /\ ThetaInRange(options.theta)
    /\ \E s, t, u \in Rows :
          /\ s < t /\ u # s /\ u # t
          /\ Alike(s, t)
          /\ ali.weights[s + 1] = ali.weights[t + 1]
          /\ ali.weights[u + 1] = options.scale
          /\ ali.weights[s + 1] # options.scale

\* C4: nEff is the sum of the weights after MSARead (every weight 1, nEff
\* the number of rows), after MSAReweightSequences and after
\* MSAEstimateSampleSize.
C4_EffectiveSizeIsWeightSum ==
    /\ pc = "MSAReweightSequences" =>
          /\ \A s \in Rows : ali.weights[s + 1] = One
          /\ ali.nEff = R(ali.nSeqs, 1)
    /\ pc # "MSARead" =>
          /\ Len(ali.weights) = ali.nSeqs
          /\ ali.nEff = WeightOf(Rows)

\* The estimator has rescaled unequal weights.
C4_Witness ==
    /\ pc = "InferPairModel" /\ ThetaInRange(options.theta)
    /\ ali.nEff \in SampleSizes
    /\ \E s, t \in Rows : ali.weights[s + 1] # ali.weights[t + 1]
    /\ ali.nEff = WeightOf(Rows)

Counted == pc = "MSAEstimateSampleSize"

Standard == options.estimatorMAP = INFER_MAP_PLM

GapReduced == options.estimatorMAP = INFER_MAP_PLM_GAPREDUCE

Codes == 0..(ali.nCodes - 1)

SitePairs == { y \in Sites \X Sites : y[1] < y[2] }

\* The cells of row i of fi and of block (i, j) of fij added up.
FiRowSum(i) ==
    RSumTo([k \in 1..ali.nCodes |-> Cell(ali.fi, fiIx(ali, i, k - 1))], ali.nCodes)

FijBlockSum(i, j) ==
    RSumTo([k \in 1..(ali.nCodes * ali.nCodes) |->
               Cell(ali.fij, fijIx(ali, i, j, (k - 1) \div ali.nCodes,
                                              (k - 1) % ali.nCodes))],
           ali.nCodes * ali.nCodes)

\* C5: under the standard convention fi(i, a) is the weight of the rows
\* with code a at i over nEff, fij(i, j, a, b) the weight of the rows with
\* a at i and b at j over nEff, and every row of fi and every block of fij
\* adds up to 1, for every loaded alignment (here: of at least one row,
\* and counted without a write outside fi and fij).
C5_StandardMarginals ==
    (Counted /\ Standard /\ ali.nSeqs >= 1 /\ ~StrayWrite(ali, options)) =>
        /\ \A i \in Sites, a \in Codes :
              Cell(ali.fi, fiIx(ali, i, a))
                  = RDiv(WeightOf({ s \in Rows : seq(ali, s, i) = a }), ali.nEff)
        /\ \A y \in SitePairs, a, b \in Codes :
              Cell(ali.fij, fijIx(ali, y[1], y[2], a, b))
                  = RDiv(WeightOf({ s \in Rows : /\ seq(ali, s, y[1]) = a
                                                /\ seq(ali, s, y[2]) = b }),
                         ali.nEff)
        /\ \A i \in Sites : FiRowSum(i) = One
        /\ \A y \in SitePairs : FijBlockSum(y[1], y[2]) = One

\* C6: under the gap-reduced convention nCodes is the alphabet length less
\* one, fi(i, a) is the weight of the rows with symbol a + 1 at i over the
\* weight of the rows that are not a gap at i, fij likewise over the rows
\* ungapped at both sites, and every row and block adds up to 1.
C6_GapReducedMarginals ==
    (Counted /\ GapReduced /\ ali.nSeqs >= 1) =>
        /\ ali.nCodes = Len(ali.alphabet.str) - 1
        /\ \A i \in Sites, a \in Codes :
              Cell(ali.fi, fiIx(ali, i, a))
                  = RDiv(WeightOf({ s \in Rows : seq(ali, s, i) = a + 1 }),
                         WeightOf({ s \in Rows : seq(ali, s, i) # 0 }))
        /\ \A y \in SitePairs, a, b \in Codes :
              Cell(ali.fij, fijIx(ali, y[1], y[2], a, b))
                  = RDiv(WeightOf({ s \in Rows : /\ seq(ali, s, y[1]) = a + 1
                                                /\ seq(ali, s, y[2]) = b + 1 }),
                         WeightOf({ s \in Rows : /\ seq(ali, s, y[1]) # 0
                                                /\ seq(ali, s, y[2]) # 0 }))
        /\ \A i \in Sites : FiRowSum(i) = One
        /\ \A y \in SitePairs : FijBlockSum(y[1], y[2]) = One

\* C7: under the gap-reduced convention a site where every row is a gap,
\* or a pair of sites no row is ungapped at, is met without a division by
\* zero, and no NaN is stored in fi or fij.
C7_NoNaNStored ==
    (Counted /\ GapReduced /\ ali.nSeqs >= 1) =>
        /\ \A i \in Sites, a \in Codes : ~IsNaN(Cell(ali.fi, fiIx(ali, i, a)))
        /\ \A y \in SitePairs, a, b \in Codes :
              ~IsNaN(Cell(ali.fij, fijIx(ali, y[1], y[2], a, b)))

\* C8: under the gap-reduced convention, for an alignment of positive
\* weights, every gapi(i) and every ungapij(i, j) lies in [0, 1] and
\* ungapij(i, j) is at most 1 - gapi(i) and at most 1 - gapi(j).
C8_GapFrequencyBounds ==
    (/\ pc \in { "MSAEstimateSampleSize", "InferPairModel", "done", "spinning" }
     /\ GapReduced
     /\ ali.nSeqs >= 1
     /\ \A s \in Rows : RLt(Zero, ali.weights[s + 1])) =>
        /\ Len(ali.gapi) = ali.nSites
        /\ Len(ali.ungapij) = NumPairs(ali)
        /\ \A i \in Sites :
              RLe(Zero, ali.gapi[i + 1]) /\ RLe(ali.gapi[i + 1], One)
        /\ \A p \in 1..NumPairs(ali) :
              LET i == PairsOf(ali.nSites)[p][1]
                  j == PairsOf(ali.nSites)[p][2]
                  u == ali.ungapij[p]
              IN  /\ RLe(Zero, u) /\ RLe(u, One)
                  /\ RLe(u, RSub(One, ali.gapi[i + 1]))
                  /\ RLe(u, RSub(One, ali.gapi[j + 1]))

\* A site gapped in some rows only, and a pair ungapped in fewer rows than
\* either of its sites.
C8_Witness ==
    /\ Counted /\ GapReduced /\ ali.nSeqs >= 1
    /\ \E p \in 1..NumPairs(ali) :
          LET i == PairsOf(ali.nSites)[p][1]
              j == PairsOf(ali.nSites)[p][2]
              u == ali.ungapij[p]
          IN  /\ RLt(Zero, ali.gapi[i + 1]) /\ RLt(ali.gapi[i + 1], One)
              /\ RLt(Zero, u)
              /\ RLt(u, RSub(One, ali.gapi[i + 1]))
              /\ RLt(u, RSub(One, ali.gapi[j + 1]))

\* C9: when MSARead returns, every cell of the retained alignment is a
\* code of [0, nCodes - 1], a lowercase match having been shifted up by
\* nCodes, for the protein alphabet and for one given with -a.
C9_CodesInRange ==
    pc = "MSAReweightSequences" =>
        /\ Len(ali.sequences) = ali.nSeqs * ali.nSites
        /\ \A s \in Rows, i \in Sites :
              seq(ali, s, i) >= 0 /\ seq(ali, s, i) <= ali.nCodes - 1

\* The character of the file behind cell (s, i) of the full alignment.
FileChar(s, i) == file[s + 1].seq[i + 1]

InAlphabet(c) == \E k \in 1..Len(options.alphabet.str) : options.alphabet.str[k] = c

\* C10: MSAReadCode gives a character c of the alphabet that is its own
\* uppercase the index k with alphabet[k] = c, gives a lowercase character
\* whose uppercase is alphabet[k] the code k - nCodes, and under the
\* protein alphabet reads '.' as the gap, code 0.
C10_ReadCodeRoundTrip ==
    pc = "MSARead:encoded" =>
        \A s \in Rows, i \in Sites :
            LET c   == FileChar(s, i)
                k   == seq(ali, s, i)
                str == options.alphabet.str
                n   == ali.nCodes
            IN  /\ n = Len(str)
                /\ (InAlphabet(c) /\ toupper(c) = c) =>
                      (k >= 0 /\ k < n /\ str[k + 1] = c)
                /\ (toupper(c) # c /\ InAlphabet(toupper(c))) =>
                      (k >= -n /\ k < 0 /\ str[k + n + 1] = toupper(c))
                /\ (IsCodesAA(options.alphabet) /\ c = ".") => k = 0

\* A line of the protein alphabet holding '.' and a lowercase 'a'.
C10_Witness ==
    /\ pc = "MSARead:encoded"
    /\ IsCodesAA(options.alphabet)
    /\ \E i, j \in Sites :
          /\ FileChar(0, i) = "." /\ seq(ali, 0, i) = 0
          /\ FileChar(0, j) = "a" /\ seq(ali, 0, j) = 1 - ali.nCodes

\* c is no symbol of the alphabet, whatever the case of either.
OutOfAlphabet(c) ==
    /\ \A k \in 1..Len(options.alphabet.str) :
          toupper(c) # toupper(options.alphabet.str[k])
    /\ ~(IsCodesAA(options.alphabet) /\ c = ".")

\* C11: for an alphabet of any length nCodes >= 1, MSAReadCode gives a
\* character that matches no symbol of the alphabet, in either case, the
\* sentinel nCodes and no other code.
C11_SentinelOutOfAlphabet ==
    (pc = "MSARead:encoded" /\ ali.nCodes >= 1) =>
        \A s \in Rows, i \in Sites :
            OutOfAlphabet(FileChar(s, i)) => seq(ali, s, i) = ali.nCodes

Loaded == pc = "MSAReweightSequences"

\* The code MSAReadCode gives the character at column i of record r.
RecordCode(r, i) ==
    MSAReadCode(file[r].seq[i], options.alphabet, Len(options.alphabet.str))

\* The records whose every cell is a code of [-nCodes, nCodes - 1].
ValidRecords ==
    { r \in 1..Len(file) :
        \A i \in 1..Len(file[r].seq) :
            /\ RecordCode(r, i) >= -Len(options.alphabet.str)
            /\ RecordCode(r, i) <= Len(options.alphabet.str) - 1 }

\* Cell (s, j) of the alignment holds the code of column cols[j + 1] of the
\* record kept[s + 1], a soft code possibly shifted up by nCodes.
HoldsCell(s, j, kept, cols) ==
    LET k == RecordCode(kept[s + 1], cols[j + 1])
    IN  seq(ali, s, j) = k \/ (k < 0 /\ seq(ali, s, j) = k + ali.nCodes)

\* The increasing selections of ali.nSites columns of the file.
ColumnChoices ==
    { Ascending(C) : C \in { D \in SUBSET (1..Len(file[1].seq)) :
                             Cardinality(D) = ali.nSites } }

\* C12: MSARead retains a row iff each of its cells has a code in
\* [-nCodes, nCodes - 1]: the rows of the alignment are the valid records
\* in file order, and no cell holds the sentinel nCodes.
C12_RowsRetained ==
    Loaded =>
        /\ ali.nSeqs = Cardinality(ValidRecords)
        /\ Len(ali.sequences) = ali.nSeqs * ali.nSites
        /\ \E cols \in ColumnChoices :
              \A s \in Rows, j \in Sites :
                  HoldsCell(s, j, Ascending(ValidRecords), cols)
        /\ \A s \in Rows, j \in Sites : seq(ali, s, j) # ali.nCodes

\* A record with an out-of-alphabet character between two valid ones.
C12_Witness ==
    /\ Loaded
    /\ ali.nSeqs = 2 /\ ali.nSites >= 1
    /\ \E r1, r2, r3 \in 1..Len(file) :
          /\ r1 < r2 /\ r2 < r3
          /\ r1 \in ValidRecords /\ r3 \in ValidRecords /\ r2 \notin ValidRecords
          /\ seq(ali, 0, 0) # seq(ali, 1, 0)

\* The records whose name starts with the requested focus prefix.
Matches ==
    IF options.target.null THEN {}
    ELSE { r \in 1..Len(file) :
             /\ Len(file[r].name) >= Len(options.target.str)
             /\ SubSeq(file[r].name, 1, Len(options.target.str)) = options.target.str }

\* The first of them in file order.
FirstMatch == CHOOSE r \in Matches : \A q \in Matches : r <= q

Strict(offsets) ==
    \A j, k \in 1..Len(offsets) : j < k => offsets[j] < offsets[k]

\* C13: in focus mode on the protein alphabet MSARead drops exactly the
\* columns where the cell of the focus sequence is the gap (0) or a soft
\* code (< 0) and keeps every other column in every retained row; offsets
\* has one entry per retained column and is strictly increasing.
C13_FocusColumns ==
    (Loaded /\ IsCodesAA(options.alphabet) /\ Matches # {}) =>
        LET kept == { i \in 1..Len(file[1].seq) : RecordCode(FirstMatch, i) > 0 }
        IN  /\ ali.nSites = Cardinality(kept)
            /\ Len(ali.sequences) = ali.nSeqs * ali.nSites
            /\ \A s \in Rows, j \in Sites :
                  HoldsCell(s, j, Ascending(ValidRecords), Ascending(kept))
            /\ Len(ali.offsets) = ali.nSites
            /\ Strict(ali.offsets)

\* C14: when MSARead returns, names and the retained rows are 1:1: for
\* every retained row s, names[s] is the name of the record whose symbols
\* row s holds, also when rows before s were dropped.
C14_NamesFollowRows ==
    Loaded =>
        \A s \in Rows :
            /\ s + 1 <= Len(ali.names)
            /\ ali.names[s + 1] = file[Ascending(ValidRecords)[s + 1]].name

\* C15: every alignment MSARead returns has nSeqs >= 1 and nSites >= 1,
\* also when every row holds an out-of-alphabet character or the focus
\* rejects every column.
C15_NonEmpty ==
    Loaded => (ali.nSeqs >= 1 /\ ali.nSites >= 1)

\* Some record has no '>' or a sequence not as long as the first one's.
Malformed ==
    \/ \E r \in 1..Len(file) : ~file[r].marker
    \/ \E r \in 1..Len(file) : Len(file[r].seq) # Len(file[1].seq)

\* C16: MSARead ends the run, and returns no alignment, whenever a record
\* of the input, the first one included, does not begin with '>', and
\* whenever a record's sequence is not as long as the first record's.
\* Stated on the runs that never read the unwritten seq: the first record
\* has its '>'.
C16_MalformedAborts ==
    (file[1].marker /\ Malformed /\ pc # "MSARead")
        => pc \in { "exit", "crashed" }

StartText ==
    LET name == file[FirstMatch].name
        p    == Len(options.target.str)
    IN  IF Len(name) >= p + 2 /\ name[p + 1] = "/" /\ isdigit(name[p + 2])
        THEN SubSeq(name, p + 2,
                    CHOOSE e \in (p + 2)..Len(name) :
                        /\ \A j \in (p + 2)..e : isdigit(name[j])
                        /\ e = Len(name) \/ ~isdigit(name[e + 1]))
        ELSE << >>

RECURSIVE Decimal(_)
\* The decimal digits of n >= 0.
Decimal(n) ==
    LET d == CHOOSE c \in { "0", "1", "2", "3", "4", "5", "6", "7", "8", "9" } :
                 DigitValue(c) = n % 10
    IN  IF n < 10 THEN << d >> ELSE Append(Decimal(n \div 10), d)

RECURSIVE StripZeros(_)
StripZeros(s) == IF Len(s) > 1 /\ s[1] = "0" THEN StripZeros(Tail(s)) ELSE s

\* The original 1-based positions of the columns a focus run retains.
RetainedColumns ==
    Ascending({ i \in 1..Len(file[1].seq) :
                  /\ IsCodesAA(options.alphabet) => RecordCode(FirstMatch, i) > 0
                  /\ GapReduced => RecordCode(FirstMatch, i) # 0 })

\* C18: in focus mode, when the focus name has '/' right after the prefix
\* and then a decimal START of any number of digits, offsets[k] is the
\* original 1-based position of the k-th retained column + START - 1;
\* when '/' is followed by a non-digit, or there is no '/', it is the
\* position itself.
C18_RegionOffsets ==
    (Loaded /\ Matches # {}) =>
        /\ Len(ali.offsets) = Len(RetainedColumns)
        /\ \A k \in 1..Len(ali.offsets) :
              IF StartText = << >>
              THEN ali.offsets[k] = RetainedColumns[k]
              ELSE /\ ali.offsets[k] >= RetainedColumns[k] - 1
                   /\ Decimal(ali.offsets[k] - RetainedColumns[k] + 1)
                          = StripZeros(StartText)

\* C19: the step that ends MSAEstimateSampleSize multiplies every
\* weights[s] by the same factor exp(u) / oldNEff, oldNEff being nEff on
\* entry, and leaves nEff = exp(u); so weights[s] / weights[t] is the same
\* before and after for any two sequences.
C19_WeightsRescaled ==
    [][ (pc = "MSAEstimateSampleSize" /\ pc' = "InferPairModel"
            /\ ThetaInRange(options.theta)) =>
            /\ ali'.nEff \in FinalExp(ali)
            /\ ali'.nSeqs = ali.nSeqs /\ Len(ali'.weights) = ali.nSeqs
            /\ \A s \in Rows :
                  ali'.weights[s + 1]
                      = RMul(ali.weights[s + 1], RDiv(ali'.nEff, ali.nEff))
            /\ \A s, u \in Rows :
                  RMul(ali'.weights[s + 1], ali.weights[u + 1])
                      = RMul(ali'.weights[u + 1], ali.weights[s + 1]) ]_vars

\* The estimator has ended with unequal weights, one of them above the
\* scale no weight exceeds before it.
C19_Witness ==
    /\ pc = "InferPairModel" /\ ThetaInRange(options.theta)
    /\ ali.nSeqs >= 2
    /\ \E s, u \in Rows :
          /\ ali.weights[s + 1] # ali.weights[u + 1]
          /\ RLt(options.scale, ali.weights[s + 1])
          /\ RLt(ali.weights[u + 1], options.scale)

\* Every row of the alignment holds the same codes.
Identical == \A s, u \in Rows, i \in Sites : seq(ali, s, i) = seq(ali, u, i)

\* C20: for an alignment of nSeqs >= 1 identical rows and theta in [0, 1],
\* reweighting gives every sequence the weight scale / nSeqs and
\* nEff = scale, and the standard marginals have fi(i, a) = 1 for the
\* symbol a present at site i and 0 for every other symbol (here: counted
\* without a write outside fi).
C20_IdenticalRows ==
    (ali.nSeqs >= 1 /\ Identical /\ ThetaInRange(options.theta)) =>
        /\ (Reweighted \/ Counted) =>
              /\ \A s \in Rows :
                    ali.weights[s + 1] = RDiv(options.scale, R(ali.nSeqs, 1))
              /\ ali.nEff = options.scale
        /\ (Counted /\ Standard /\ ~StrayWrite(ali, options)) =>
              \A i \in Sites :
                  /\ seq(ali, 0, i) \in Codes
                  /\ \A a \in Codes :
                        Cell(ali.fi, fiIx(ali, i, a))
                            = IF seq(ali, 0, i) = a THEN One ELSE Zero

\* MSARead has returned and the alignment has not been handed on yet, or
\* is just being handed to the inference.
Held ==
    pc \in { "MSAReweightSequences", "MSACountMarginals",
             "MSAEstimateSampleSize", "InferPairModel" }

\* C21: in every state from the end of MSARead to the handoff to the
\* inference, with scale > 0, every weights[s] is strictly positive,
\* nEff > 0, and nEff <= nSeqs whenever scale <= 1; the state after
\* MSAEstimateSampleSize has rescaled the weights is one of them.
C21_PositiveWeights ==
    (Held /\ RLt(Zero, options.scale)) =>
        /\ \A s \in Rows : RLt(Zero, ali.weights[s + 1])
        /\ RLt(Zero, ali.nEff)
        /\ RLe(options.scale, One) => RLe(ali.nEff, R(ali.nSeqs, 1))

\* The calls of main in their order, and the ways a call does not return.
PhaseSteps ==
    { << "MSARead", "MSAReweightSequences" >>,
      << "MSAReweightSequences", "MSACountMarginals" >>,
      << "MSACountMarginals", "MSAEstimateSampleSize" >>,
      << "MSAEstimateSampleSize", "InferPairModel" >>,
      << "InferPairModel", "done" >>,
      << "MSACountMarginals", "crashed" >>,
      << "MSAEstimateSampleSize", "spinning" >> }

\* C22: the driver runs MSARead, MSAReweightSequences, MSACountMarginals,
\* MSAEstimateSampleSize and the inference in this order, each after the
\* one before has finished; MSAEstimateSampleSize runs iff
\* 0 <= theta <= 1, so for theta outside [0, 1] the weights handed to the
\* inference all equal scale and nEff = nSeqs * scale.
C22_PhaseOrder ==
    /\ [][ /\ << pc, pc' >> \in PhaseSteps
           /\ pc = "MSAEstimateSampleSize" =>
                 IF RLe(Zero, options.theta) /\ RLe(options.theta, One)
                 THEN \/ pc' = "spinning"
                      \/ \E expU \in FinalExp(ali) : ali' = Rescaled(ali, expU)
                 ELSE pc' = "InferPairModel" /\ ali' = ali ]_vars
    /\ []( (pc = "InferPairModel"
               /\ ~(RLe(Zero, options.theta) /\ RLe(options.theta, One))) =>
              /\ \A s \in Rows : ali.weights[s + 1] = options.scale
              /\ ali.nEff = RMul(R(ali.nSeqs, 1), options.scale) )

\* An alignment of two rows is handed to the inference with the weights
\* main left alone, theta being outside [0, 1] and the scale not 1.
C22_Witness ==
    /\ pc = "InferPairModel"
    /\ ~(RLe(Zero, options.theta) /\ RLe(options.theta, One))
    /\ ali.nSeqs = 2 /\ options.scale # One
    /\ ali.weights = << options.scale, options.scale >>

\* C23: in focus mode, after the rows are filtered, target is the number
\* of valid rows before the focus row and row target of the reduced
\* matrix holds the focus sequence's own symbols in the retained columns;
\* when the focus row holds an out-of-alphabet character and is dropped,
\* target designates no other sequence.
C23_TargetFollowsFocus ==
    (Loaded /\ Matches # {}) =>
        IF FirstMatch \in ValidRecords
        THEN /\ ali.target = Cardinality({ r \in ValidRecords : r < FirstMatch })
             /\ ali.target \in Rows
             /\ \A j \in Sites :
                   LET k == RecordCode(FirstMatch, RetainedColumns[j + 1])
                   IN  \/ seq(ali, ali.target, j) = k
                       \/ k < 0 /\ seq(ali, ali.target, j) = k + ali.nCodes
        ELSE ali.target \notin Rows

\* C24: for every alignment with nSites >= 1 MSAEstimateSampleSize
\* terminates: the loop of each batch trial that redraws j until j # i
\* ends, and the weights are rescaled after the iterations.
C24_EstimatorTerminates ==
    ali.nSites >= 1 => pc # "spinning"

\* The weight of the rows ungapped at both i and j, over nEff.
BothUngapped(i, j) ==
    RDiv(WeightOf({ s \in Rows : seq(ali, s, i) > 0 /\ seq(ali, s, j) > 0 }),
         ali.nEff)

\* C25: in a batch trial the draw count n is floor(NeffLocal) or
\* floor(NeffLocal) + 1, the larger exactly when the uniform draw U is
\* below NeffLocal - floor(NeffLocal); so n = NeffLocal whenever NeffLocal
\* is an integer; NeffLocal is exp(u) * ungapij(i, j) in gap-reduced mode
\* and exp(u) otherwise.
C25_DrawCount ==
    pc = "MSAEstimateSampleSize:trial" =>
        LET x == IF GapReduced
                 THEN RMul(trial.Neff, BothUngapped(trial.i, trial.j))
                 ELSE trial.Neff
            f == CHOOSE k \in 0..8 : RLe(R(k, 1), x) /\ RLt(x, R(k + 1, 1))
        IN  /\ trial.NeffLocal = x
            /\ trial.Nint \in { f, f + 1 }
            /\ trial.Nint = f + 1 <=> RLt(trial.U, RSub(x, R(f, 1)))
            /\ x = R(f, 1) => trial.Nint = f

\* A gap-reduced trial on sites drawn with j < i rounds 3/2 up to 2.
C25_Witness ==
    /\ pc = "MSAEstimateSampleSize:trial" /\ GapReduced
    /\ trial.j < trial.i
    /\ trial.NeffLocal = R(3, 2) /\ trial.U = R(1, 4) /\ trial.Nint = 2

\* C26: MSAEstimateSampleSize changes only weights and nEff: sequences,
\* nSeqs, nSites, nCodes, fi, fij, gapi and ungapij are after the call
\* what they were before it; MSAReweightSequences likewise leaves
\* sequences and the dimensions unchanged.
C26_EstimatorFrame ==
    [][ /\ pc = "MSAEstimateSampleSize" =>
              /\ ali'.sequences = ali.sequences
              /\ ali'.nSeqs = ali.nSeqs /\ ali'.nSites = ali.nSites
              /\ ali'.nCodes = ali.nCodes
              /\ ali'.fi = ali.fi /\ ali'.fij = ali.fij
              /\ ali'.gapi = ali.gapi /\ ali'.ungapij = ali.ungapij
        /\ pc = "MSAReweightSequences" =>
              /\ ali'.sequences = ali.sequences
              /\ ali'.nSeqs = ali.nSeqs /\ ali'.nSites = ali.nSites
              /\ ali'.nCodes = ali.nCodes ]_vars

\* The estimator has ended on a gap-reduced alignment with its tables
\* filled and its weights rescaled to a new sum.
C26_Witness ==
    /\ pc = "InferPairModel" /\ ThetaInRange(options.theta) /\ GapReduced
    /\ ali.nSeqs >= 2 /\ ali.nSites >= 2
    /\ ali.fi.n > 0 /\ ali.fij.n > 0 /\ Len(ali.ungapij) > 0
    /\ ali.nEff = R(3, 1) /\ RLt(options.scale, ali.weights[1])

\* C27: in the parallel neighbor-count loop the iteration for sequence s
\* writes only weights[s] and nothing else of the alignment, no two
\* iterations at once hold the same weight between its load and its store,
\* and whatever the interleaving the weights the function leaves are those
\* of the loop run one iteration after the other.
C27_IterationsIndependent ==
    /\ [][ pc' = "MSAReweightSequences:parallel for" =>
           \A s \in DOMAIN threads :
               threads'[s] # threads[s] =>
                   /\ [ali' EXCEPT !.weights = ali.weights] = ali
                   /\ \A u \in DOMAIN threads \ { s } :
                          ali'.weights[u + 1] = ali.weights[u + 1] ]_vars
    /\ [](pc = "MSAReweightSequences:parallel for" =>
            \A s, u \in DOMAIN threads :
                threads[s].held # -1 /\ s # u =>
                    threads[s].held # threads[u].held)
    /\ [](pc = "MSACountMarginals" =>
            ali = MSAReweightSequencesResult(MSAReadResult(file, options),
                                             options.theta, options.scale,
                                             TRUE))

\* Two iterations are at once between load and store, one of them having
\* already counted a neighbor.
C27_Witness ==
    /\ pc = "MSAReweightSequences:parallel for"
    /\ ali.nSeqs = 3
    /\ \E s, u \in DOMAIN threads :
          /\ s # u
          /\ threads[s].held # -1 /\ threads[u].held # -1
          /\ ali.weights[s + 1] = R(2, 1)

\* fij(i, j, a, b) added up over b, and over a.
FijOverB(i, j, a) ==
    RSumTo([k \in 1..ali.nCodes |->
               Cell(ali.fij, fijIx(ali, i, j, a, k - 1))], ali.nCodes)

FijOverA(i, j, b) ==
    RSumTo([k \in 1..ali.nCodes |->
               Cell(ali.fij, fijIx(ali, i, j, k - 1, b))], ali.nCodes)

\* C28: under the standard convention, for every pair of sites i < j,
\* fij(i, j, a, b) summed over b is fi(i, a) and summed over a is fi(j, b),
\* and a positive fij(i, j, a, b) has fi(i, a) and fi(j, b) positive, so
\* that the average mutual information takes no logarithm of zero (here:
\* for tables counted without a write outside fi and fij).
C28_PairTableConsistent ==
    (Counted /\ Standard /\ ~StrayWrite(ali, options)) =>
        \A y \in SitePairs, a, b \in Codes :
            /\ FijOverB(y[1], y[2], a) = Cell(ali.fi, fiIx(ali, y[1], a))
            /\ FijOverA(y[1], y[2], b) = Cell(ali.fi, fiIx(ali, y[2], b))
            /\ RLt(Zero, Cell(ali.fij, fijIx(ali, y[1], y[2], a, b))) =>
                   /\ RLt(Zero, Cell(ali.fi, fiIx(ali, y[1], a)))
                   /\ RLt(Zero, Cell(ali.fi, fiIx(ali, y[2], b)))

\* Every two sequences of the alignment are neighbors of each other.
AllNeighbors ==
    \A s, t \in Rows : s # t => IsNeighbor(ali, options.theta, s, t)

C30_TablesFollowEstimate ==
    (/\ pc = "InferPairModel"
     /\ ThetaInRange(options.theta)
     /\ Standard
     /\ ali.nSeqs >= 1
     /\ ~StrayWrite(ali, options)) =>
        /\ \A i \in Sites, a \in Codes :
              RMul(Cell(ali.fi, fiIx(ali, i, a)), ali.nEff)
                  = WeightOf({ s \in Rows : seq(ali, s, i) = a })
        /\ \A y \in SitePairs, a, b \in Codes :
              RMul(Cell(ali.fij, fijIx(ali, y[1], y[2], a, b)), ali.nEff)
                  = WeightOf({ s \in Rows : /\ seq(ali, s, y[1]) = a
                                            /\ seq(ali, s, y[2]) = b })

====
